---------------------------- MODULE Spec2Model ----------------------------
(***************************************************************************)
(* Model of the review engine of CodeAssist (src/review_core.py).           *)
(*                                                                         *)
(* Text is modelled as a sequence of atoms: an atom is a maximal run of    *)
(* characters holding no separator, and the separators "/" and "|" are      *)
(* atoms of their own, so that prefix tests, basename and split work on    *)
(* the text as the code does.  An Optional value is the empty tuple (None) *)
(* or a one-element tuple.                                                 *)
(***************************************************************************)
EXTENDS Integers, Sequences, FiniteSets, TLC

VARIABLES
    \* review_code_string in flight, and what its caller does with the result
    pc, hint, tmpfiles, missing, f8, bd, cx, issues, idx, nAssigned,
    exc, result, shown,
    \* filter_issues_to_changed_lines applied to drawn inputs
    fpc, fIssues, fDiff, fChanged, fOut, fOut2,
    \* issues_to_markdown applied to drawn inputs
    rpc, rIn, rOut

reviewVars ==
    <<pc, hint, tmpfiles, missing, f8, bd, cx, issues, idx, nAssigned,
      exc, result, shown>>

filterVars == <<fpc, fIssues, fDiff, fChanged, fOut, fOut2>>

renderVars == <<rpc, rIn, rOut>>

vars == <<reviewVars, filterVars, renderVars>>

-----------------------------------------------------------------------------
(* Bounds *)

\* longest output (lines, results, blocks) an analyzer reports
MaxOut == 2
\* most patched files in a diff
MaxFiles == 2
\* longest issue list handed to the filter or the renderer
MaxIssues == 2

-----------------------------------------------------------------------------
(* Values *)

None == <<>>

Some(v) == <<v>>

SeqsUpTo(S, n) == UNION {[1..k -> S] : k \in 0..n}

Max(S) == CHOOSE m \in S : \A x \in S : x <= m

\* dataclass Issue: suggestion defaults to None
Issue(file, line, severity, tool, rule, message) ==
    [file |-> file, line |-> line, severity |-> severity, tool |-> tool,
     rule |-> rule, message |-> message, suggestion |-> None]

-----------------------------------------------------------------------------
(* Paths *)

startswith(p, pre) == Len(p) >= Len(pre) /\ SubSeq(p, 1, Len(pre)) = pre

\* os.path.basename: the text after the last "/"
basename(p) ==
    LET slashes == {i \in 1..Len(p) : p[i] = "/"}
        last == IF slashes = {} THEN 0 ELSE Max(slashes)
    IN  SubSeq(p, last + 1, Len(p))

normalize_path(p) ==
    LET q == IF startswith(p, <<"a", "/">>) \/ startswith(p, <<"b", "/">>)
             THEN SubSeq(p, 3, Len(p))
             ELSE p
    IN  basename(q)

-----------------------------------------------------------------------------
(* Unified diffs, as PatchSet hands them to the extractor *)

DiffLine(added, target) == [is_added |-> added, target_line_no |-> target]

PatchedFile(target, removed, hunks) ==
    [target_file |-> target, is_removed_file |-> removed, hunks |-> hunks]

DevNull == <<"/", "dev", "/", "null">>

HunkSeqs ==
    { <<>>,
      << <<DiffLine(FALSE, Some(11)), DiffLine(TRUE, Some(12))>> >>,
      << <<DiffLine(FALSE, None), DiffLine(FALSE, Some(4))>> >>,
      << <<DiffLine(TRUE, Some(5)), DiffLine(FALSE, None)>>, <<DiffLine(TRUE, Some(12))>> >> }

DiffTargets ==
    { <<"b", "/", "snippet.py">>,
      <<"b", "/", "src", "/", "app.py">>,
      <<"app.py">> }

PatchedFiles ==
    {PatchedFile(t, FALSE, hs) : t \in DiffTargets, hs \in HunkSeqs \ {<<>>}}
    \cup { PatchedFile(DevNull, TRUE, << <<DiffLine(FALSE, None)>> >>),
           PatchedFile(<<"b", "/", "app.py">>, TRUE, << <<DiffLine(TRUE, Some(12))>> >>) }

\* a diff names each target file once
Diffs ==
    { d \in SeqsUpTo(PatchedFiles, MaxFiles) :
        \A i, j \in DOMAIN d : i # j => d[i].target_file # d[j].target_file }

\* the lines one patched file adds (the loops over its hunks and their lines)
AddedLines(patched_file) ==
    UNION { { hunk[j].target_line_no[1] :
                j \in {k \in DOMAIN hunk :
                          hunk[k].is_added /\ hunk[k].target_line_no # None} } :
            hunk \in {patched_file.hunks[i] : i \in DOMAIN patched_file.hunks} }

\* the loop over the patched files: changed after the first n of them
RECURSIVE ChangedAfter(_, _)
ChangedAfter(ps, n) ==
    IF n = 0 THEN <<>>
    ELSE LET changed == ChangedAfter(ps, n - 1)
             patched_file == ps[n]
             added == AddedLines(patched_file)
             key == normalize_path(patched_file.target_file)
         IN  IF patched_file.is_removed_file THEN changed
             ELSE IF added = {} THEN changed
             ELSE [k \in (DOMAIN changed) \cup {key} |->
                      IF k = key THEN added ELSE changed[k]]

changed_lines_from_diff(ps) == ChangedAfter(ps, Len(ps))

-----------------------------------------------------------------------------
(* The issue filter *)

\* the condition of the comprehension with the Issue's file taken as it is
RetainedUnnormalized(i, changed) ==
    /\ i.file \in DOMAIN changed
    /\ i.line \in changed[i.file]

\* the condition of the comprehension
Retained(i, changed) ==
    /\ normalize_path(i.file) \in DOMAIN changed
    /\ i.line \in changed[normalize_path(i.file)]

RECURSIVE Comprehension(_, _)
Comprehension(list, changed) ==
    IF list = <<>> THEN <<>>
    ELSE (IF Retained(Head(list), changed) THEN <<Head(list)>> ELSE <<>>)
         \o Comprehension(Tail(list), changed)

\* the filter with its comprehension starting at the second Issue
filter_from_second(list, diff) ==
    LET changed == changed_lines_from_diff(diff)
    IN  IF DOMAIN changed = {} \/ list = <<>> THEN list
        ELSE Comprehension(Tail(list), changed)

filter_issues_to_changed_lines(list, diff) ==
    LET changed == changed_lines_from_diff(diff)
    IN  IF DOMAIN changed = {} THEN list ELSE Comprehension(list, changed)


-----------------------------------------------------------------------------
(* Text conversions *)

Digits == <<"0", "1", "2", "3", "4", "5", "6", "7", "8", "9">>

IsDigit(tok) == \E d \in DOMAIN Digits : Digits[d] = tok

DigitValue(tok) == (CHOOSE d \in DOMAIN Digits : Digits[d] = tok) - 1

RECURSIVE NatOf(_)
NatOf(toks) ==
    IF toks = <<>> THEN 0
    ELSE 10 * NatOf(SubSeq(toks, 1, Len(toks) - 1)) + DigitValue(toks[Len(toks)])

ValueError == [exc |-> "ValueError"]

\* int(text): an optional sign, then digits; anything else raises ValueError
int_of_text(text) ==
    LET signed == text # <<>> /\ text[1] \in {"-", "+"}
        body == IF signed THEN Tail(text) ELSE text
    IN  IF body = <<>> \/ \E i \in DOMAIN body : ~IsDigit(body[i])
        THEN ValueError
        ELSE [exc |-> "None",
              value |-> IF signed /\ text[1] = "-" THEN 0 - NatOf(body) ELSE NatOf(body)]

RECURSIVE NatText(_)
NatText(n) ==
    IF n < 10 THEN <<Digits[n + 1]>> ELSE NatText(n \div 10) \o <<Digits[(n % 10) + 1]>>

\* str(n) of an integer, as a format field prints it
str_of_int(n) == IF n < 0 THEN <<"-">> \o NatText(0 - n) ELSE NatText(n)

\* text.split(sep, maxsplit)
RECURSIVE split(_, _, _)
split(text, sep, maxsplit) ==
    LET at == {i \in DOMAIN text : text[i] = sep}
    IN  IF maxsplit = 0 \/ at = {} THEN <<text>>
        ELSE LET i == CHOOSE k \in at : \A m \in at : k <= m
             IN  <<SubSeq(text, 1, i - 1)>>
                 \o split(SubSeq(text, i + 1, Len(text)), sep, maxsplit - 1)

UpperToken(tok) ==
    CASE tok = "flake8" -> "FLAKE8"
      [] tok = "bandit" -> "BANDIT"
      [] tok = "complexity" -> "COMPLEXITY"
      [] tok = "mypy" -> "MYPY"
      [] tok = "high" -> "HIGH"
      [] tok = "medium" -> "MEDIUM"
      [] tok = "low" -> "LOW"
      [] OTHER -> tok

\* text.upper()
upper(text) == [i \in DOMAIN text |-> UpperToken(text[i])]

-----------------------------------------------------------------------------
(* The style adapter *)

Hints == { <<"snippet.py">>, <<"src", "/", "app.py">> }

\* lines of the style checker's output: a finding whose text holds the
\* separator, a finding at row 0, a row that is no number, and chatter
Flake8Lines ==
    { <<"1", "2", "|", "8", "|", "E501", "|", "line too long ", "|", " 80 chars">>,
      <<"0", "|", "1", "|", "E902", "|", "TokenError">>,
      <<"row", "|", "1", "|", "E1", "|", "text">>,
      <<"flake8 plugin warning">> }

Flake8Invocations ==
    { [exc |-> "FileNotFoundError"], [exc |-> "PermissionError"] }
    \cup { [exc |-> "None", stdout |-> out] : out \in SeqsUpTo(Flake8Lines, MaxOut) }

\* one turn of the parsing loop: the Issue of a line, or nothing on ValueError
Flake8Line(line, filename_hint) ==
    LET fields == split(line, "|", 3)
    IN  IF Len(fields) # 4 THEN <<>>
        ELSE LET row == int_of_text(fields[1])
             IN  IF row.exc # "None" THEN <<>>
                 ELSE <<Issue(filename_hint, row.value, <<"LOW">>, "flake8",
                              fields[3], fields[4])>>

RECURSIVE Flake8Parse(_, _)
Flake8Parse(stdout, filename_hint) ==
    IF stdout = <<>> THEN <<>>
    ELSE Flake8Line(Head(stdout), filename_hint) \o Flake8Parse(Tail(stdout), filename_hint)

Flake8Install(filename_hint) ==
    Issue(filename_hint, 1, <<"LOW">>, "flake8", <<"INSTALL">>,
          <<"flake8 not found. Did you install requirements?">>)

\* run_flake8 without the except FileNotFoundError clause
run_flake8_uncaught(invocation, filename_hint) ==
    IF invocation.exc = "None"
    THEN [exc |-> "None", issues |-> Flake8Parse(invocation.stdout, filename_hint)]
    ELSE [exc |-> invocation.exc, issues |-> <<>>]

\* run_flake8 from the invocation on: what it returns or raises
run_flake8(invocation, filename_hint) ==
    CASE invocation.exc = "FileNotFoundError" ->
            [exc |-> "None", issues |-> <<Flake8Install(filename_hint)>>]
      [] invocation.exc = "None" ->
            [exc |-> "None", issues |-> Flake8Parse(invocation.stdout, filename_hint)]
      [] OTHER -> [exc |-> invocation.exc, issues |-> <<>>]

-----------------------------------------------------------------------------
(* The security adapter *)

\* JSON values: a scalar holds a number n and a text s, of which its type t uses one
JNull == [t |-> "null", n |-> 0, s |-> <<>>]

JNum(n) == [t |-> "number", n |-> n, s |-> <<>>]

JStr(text) == [t |-> "string", n |-> 0, s |-> text]

JArr(items) == [t |-> "array", a |-> items]

JObj(fields) == [t |-> "object", o |-> fields]

\* dict.get(key, default)
get(obj, key, default) == IF key \in DOMAIN obj.o THEN obj.o[key] ELSE default

\* entries of the "results" array: a full result, one with only a check id, one
\* whose line number is text, one whose line number is null, and an entry that
\* is no object
BanditResults ==
    { JObj([line_number |-> JNum(3), issue_severity |-> JStr(<<"high">>),
            test_id |-> JStr(<<"B307">>), issue_text |-> JStr(<<"Use of eval">>)]),
      JObj([test_id |-> JStr(<<"B101">>)]),
      JObj([line_number |-> JStr(<<"n/a">>), test_id |-> JStr(<<"B102">>)]),
      JObj([line_number |-> JNull, test_id |-> JStr(<<"B103">>)]),
      JStr(<<"skipped">>) }

BanditStdouts ==
    { [kind |-> "empty"], [kind |-> "text"],
      [kind |-> "json", value |-> JArr(<<>>)],
      [kind |-> "json", value |-> JObj([errors |-> JArr(<<>>)])],
      [kind |-> "json", value |-> JObj([results |-> JNull])] }
    \cup { [kind |-> "json", value |-> JObj([results |-> JArr(rs)])] :
             rs \in SeqsUpTo(BanditResults, MaxOut) }

BanditInvocations ==
    { [exc |-> "FileNotFoundError"], [exc |-> "PermissionError"] }
    \cup { [exc |-> "None", stdout |-> out] : out \in BanditStdouts }

\* int(x) of a JSON value
int_of_json(x) ==
    CASE x.t = "number" -> [exc |-> "None", value |-> x.n]
      [] x.t = "string" -> int_of_text(x.s)
      [] OTHER -> [exc |-> "TypeError"]

\* (x or "LOW").upper()
severity_of_json(x) ==
    CASE x.t = "null" -> [exc |-> "None", value |-> upper(<<"LOW">>)]
      [] x.t = "string" ->
            [exc |-> "None", value |-> upper(IF x.s = <<>> THEN <<"LOW">> ELSE x.s)]
      [] x.t = "number" /\ x.n = 0 -> [exc |-> "None", value |-> upper(<<"LOW">>)]
      [] OTHER -> [exc |-> "AttributeError"]

\* one turn of the loop over the results: the Issue of a result, or the exception
BanditResult(res, filename_hint) ==
    IF res.t # "object" THEN [exc |-> "AttributeError"]
    ELSE LET line == int_of_json(get(res, "line_number", JNum(1)))
             sev == severity_of_json(get(res, "issue_severity", JNull))
             rule == get(res, "test_id", JStr(<<"BXXX">>))
             msg == get(res, "issue_text", JStr(<<"Security issue">>))
         IN  IF line.exc # "None" THEN [exc |-> line.exc]
             ELSE IF sev.exc # "None" THEN [exc |-> sev.exc]
             ELSE [exc |-> "None",
                   issue |-> Issue(filename_hint, line.value, sev.value, "bandit",
                                   rule.s, msg.s)]

RECURSIVE BanditLoop(_, _)
BanditLoop(results, filename_hint) ==
    IF results = <<>> THEN [exc |-> "None", issues |-> <<>>]
    ELSE LET first == BanditResult(Head(results), filename_hint)
             rest == BanditLoop(Tail(results), filename_hint)
         IN  IF first.exc # "None" THEN [exc |-> first.exc, issues |-> <<>>]
             ELSE IF rest.exc # "None" THEN rest
             ELSE [exc |-> "None", issues |-> <<first.issue>> \o rest.issues]

\* the try block around json.loads: only JSONDecodeError is caught
BanditParse(stdout, filename_hint) ==
    CASE stdout.kind = "empty" -> [exc |-> "None", issues |-> <<>>]
      [] stdout.kind = "text" -> [exc |-> "None", issues |-> <<>>]
      [] OTHER ->
            LET data == stdout.value
            IN  IF data.t # "object" THEN [exc |-> "AttributeError", issues |-> <<>>]
                ELSE LET results == get(data, "results", JArr(<<>>))
                     IN  IF results.t = "array"
                         THEN BanditLoop(results.a, filename_hint)
                         ELSE [exc |-> "TypeError", issues |-> <<>>]

BanditInstall(filename_hint) ==
    Issue(filename_hint, 1, <<"LOW">>, "bandit", <<"INSTALL">>,
          <<"bandit not found. Did you install requirements?">>)

\* run_bandit from the invocation on: what it returns or raises
run_bandit(invocation, filename_hint) ==
    CASE invocation.exc = "FileNotFoundError" ->
            [exc |-> "None", issues |-> <<BanditInstall(filename_hint)>>]
      [] invocation.exc = "None" -> BanditParse(invocation.stdout, filename_hint)
      [] OTHER -> [exc |-> invocation.exc, issues |-> <<>>]

-----------------------------------------------------------------------------
(* The complexity adapter *)

cc_threshold == 3

Blocks ==
    { [name |-> "add", complexity |-> 2, lineno |-> 2],
      [name |-> "complex_fn", complexity |-> 3, lineno |-> 8] }

\* cc_visit(code): the blocks of the code, or SyntaxError when it does not parse
CcVisits ==
    { [exc |-> "SyntaxError"] }
    \cup { [exc |-> "None", blocks |-> bs] : bs \in SeqsUpTo(Blocks, MaxOut) }

ComplexityIssue(block, filename_hint) ==
    Issue(filename_hint, block.lineno, <<"MEDIUM">>, "complexity", <<"CC">>,
          <<"Function '", block.name, "' is too complex (CC=">>
          \o str_of_int(block.complexity) \o <<").">>)

RECURSIVE ComplexityLoop(_, _)
ComplexityLoop(blocks, filename_hint) ==
    IF blocks = <<>> THEN <<>>
    ELSE (IF Head(blocks).complexity >= cc_threshold
          THEN <<ComplexityIssue(Head(blocks), filename_hint)>>
          ELSE <<>>)
         \o ComplexityLoop(Tail(blocks), filename_hint)

run_complexity(visit, filename_hint) ==
    IF visit.exc # "None" THEN [exc |-> visit.exc, issues |-> <<>>]
    ELSE [exc |-> "None", issues |-> ComplexityLoop(visit.blocks, filename_hint)]

-----------------------------------------------------------------------------
(* The suggestion annotator *)

friendly_suggestion(issue) ==
    CASE issue.tool = "complexity" ->
            Some("Extract smaller functions; reduce nesting/branches.")
      [] issue.tool = "bandit" ->
            Some("Avoid unsafe functions (e.g., eval); validate and sanitize inputs.")
      [] issue.tool = "flake8" ->
            Some("Follow PEP 8 (naming, spacing, line length) for readability.")
      [] OTHER -> None

-----------------------------------------------------------------------------
(* The renderer *)

\* the fixed success message (in the source it opens with a check-mark sign)
NoIssuesMessage == << <<"No issues found. Great job!">> >>

ReviewHeader == <<"### Review Comments">>

\* hasattr(iss, "tool")
HasTool(iss) == "tool" \in DOMAIN iss

\* the test of the suggestion written as: is not None
IsNotNone(iss) == "suggestion" \in DOMAIN iss /\ iss.suggestion # None

\* getattr(iss, "suggestion", None), taken for its truth value
Truthy(iss) ==
    /\ "suggestion" \in DOMAIN iss
    /\ iss.suggestion # None
    /\ iss.suggestion[1] # ""

\* the line of one Issue; the token "BACKQUOTE" stands for the backquote
\* character and " - " for the dash between the location and the message
MarkdownLine(iss) ==
    <<"- **">> \o upper(<<iss.tool>>) \o <<" ">> \o iss.rule \o <<"** (">>
    \o iss.severity \o <<") at ", "BACKQUOTE">> \o iss.file \o <<":">> \o str_of_int(iss.line)
    \o <<"BACKQUOTE", " - ">> \o iss.message
    \o (IF Truthy(iss) THEN <<" Tip: ", iss.suggestion[1]>> ELSE <<>>)

RECURSIVE MarkdownLines(_)
MarkdownLines(list) ==
    IF list = <<>> THEN <<>>
    ELSE (IF HasTool(Head(list)) THEN <<MarkdownLine(Head(list))>> ELSE <<>>)
         \o MarkdownLines(Tail(list))

\* the argument of issues_to_markdown: a str or a list
StrArg(text) == [type |-> "str", text |-> text, list |-> <<>>]

ListArg(list) == [type |-> "list", text |-> <<>>, list |-> list]

\* issues_to_markdown: the text returned, as its lines
issues_to_markdown(arg) ==
    IF arg.type = "str" THEN arg.text
    ELSE IF arg.list = <<>> THEN NoIssuesMessage
    ELSE <<ReviewHeader>> \o MarkdownLines(arg.list)

-----------------------------------------------------------------------------
(* review_code_string, step by step *)

NoExc == [type |-> "None", raised_by |-> "None", stage |-> "None"]

Raise(type, adapter, stage) == [type |-> type, raised_by |-> adapter, stage |-> stage]

ReviewIdle ==
    /\ pc = "idle" /\ hint = <<>> /\ tmpfiles = {}
    /\ missing = {} /\ f8 = <<>> /\ bd = <<>> /\ cx = <<>> /\ issues = <<>>
    /\ idx = 0 /\ nAssigned = <<>> /\ exc = NoExc /\ result = <<>> /\ shown = None

FilterIdle ==
    /\ fpc = "idle" /\ fIssues = <<>> /\ fDiff = <<>> /\ fChanged = <<>>
    /\ fOut = <<>> /\ fOut2 = <<>>

RenderIdle == rpc = "idle" /\ rIn = StrArg(<<>>) /\ rOut = <<>>

\* mkstemp and the write of the buffer: the file is made, then written
WriteOutcomes == {"written", "mkstemp fails", "write fails"}

\* _write_temp_code(code), called before the adapter's try block
write_temp_code(outcome, adapter, next) ==
    /\ tmpfiles' = IF outcome = "mkstemp fails" THEN tmpfiles ELSE tmpfiles \cup {adapter}
    /\ pc' = IF outcome = "written" THEN next ELSE "raised"
    /\ exc' = CASE outcome = "written" -> exc
                [] outcome = "mkstemp fails" -> Raise("OSError", adapter, "_write_temp_code")
                [] OTHER -> Raise("UnicodeEncodeError", adapter, "_write_temp_code")

\* finally: os.unlink(tmp), OSError swallowed
unlink(adapter) == tmpfiles' = tmpfiles \ {adapter}

Stage(invocation) == IF invocation.exc = "None" THEN "parse" ELSE "subprocess.run"

Flake8Write ==
    /\ pc = "flake8 write"
    /\ \E outcome \in WriteOutcomes : write_temp_code(outcome, "flake8", "flake8 run")
    /\ UNCHANGED <<hint, missing, f8, bd, cx, issues, idx, nAssigned,
                   result, shown, filterVars, renderVars>>

Flake8Run ==
    /\ pc = "flake8 run"
    /\ \E invocation \in Flake8Invocations :
          LET r == run_flake8(invocation, hint)
          IN  /\ f8' = r.issues
              /\ missing' = IF invocation.exc = "FileNotFoundError"
                            THEN missing \cup {"flake8"} ELSE missing
              /\ exc' = IF r.exc = "None" THEN exc
                        ELSE Raise(r.exc, "flake8", Stage(invocation))
              /\ pc' = IF r.exc = "None" THEN "bandit write" ELSE "raised"
    /\ unlink("flake8")
    /\ UNCHANGED <<hint, bd, cx, issues, idx, nAssigned, result, shown,
                   filterVars, renderVars>>

BanditWrite ==
    /\ pc = "bandit write"
    /\ \E outcome \in WriteOutcomes : write_temp_code(outcome, "bandit", "bandit run")
    /\ UNCHANGED <<hint, missing, f8, bd, cx, issues, idx, nAssigned,
                   result, shown, filterVars, renderVars>>

BanditRun ==
    /\ pc = "bandit run"
    /\ \E invocation \in BanditInvocations :
          LET r == run_bandit(invocation, hint)
          IN  /\ bd' = r.issues
              /\ missing' = IF invocation.exc = "FileNotFoundError"
                            THEN missing \cup {"bandit"} ELSE missing
              /\ exc' = IF r.exc = "None" THEN exc
                        ELSE Raise(r.exc, "bandit", Stage(invocation))
              /\ pc' = IF r.exc = "None" THEN "complexity" ELSE "raised"
    /\ unlink("bandit")
    /\ UNCHANGED <<hint, f8, cx, issues, idx, nAssigned, result, shown,
                   filterVars, renderVars>>

\* another process removes the temporary file while the analyzer runs
ExternalRemove ==
    /\ \E adapter \in {"flake8", "bandit"} :
          /\ pc = IF adapter = "flake8" THEN "flake8 run" ELSE "bandit run"
          /\ adapter \in tmpfiles
          /\ tmpfiles' = tmpfiles \ {adapter}
    /\ UNCHANGED <<pc, hint, missing, f8, bd, cx, issues, idx, nAssigned,
                   exc, result, shown, filterVars, renderVars>>

Complexity ==
    /\ pc = "complexity"
    /\ \E visit \in CcVisits :
          LET r == run_complexity(visit, hint)
          IN  /\ cx' = r.issues
              /\ exc' = IF r.exc = "None" THEN exc
                        ELSE Raise(r.exc, "complexity", "cc_visit")
              /\ pc' = IF r.exc = "None" THEN "concat" ELSE "raised"
    /\ UNCHANGED <<hint, tmpfiles, missing, f8, bd, issues, idx,
                   nAssigned, result, shown, filterVars, renderVars>>

\* issues = f8 + bd + cx
Concat ==
    /\ pc = "concat"
    /\ issues' = f8 \o bd \o cx
    /\ nAssigned' = [k \in 1..(Len(f8) + Len(bd) + Len(cx)) |-> 0]
    /\ idx' = 1
    /\ pc' = "annotate"
    /\ UNCHANGED <<hint, tmpfiles, missing, f8, bd, cx, exc, result,
                   shown, filterVars, renderVars>>

\* the annotating loop stopping one Issue early
AnnotateOverEarly(list, i) == i >= Len(list)

\* whether the annotating loop has visited every Issue
AnnotateOver(list, i) == i > Len(list)

\* one turn of: for i in issues: i.suggestion = friendly_suggestion(i)
Annotate ==
    /\ pc = "annotate"
    /\ ~AnnotateOver(issues, idx)
    /\ issues' = [issues EXCEPT ![idx].suggestion = friendly_suggestion(issues[idx])]
    /\ nAssigned' = [nAssigned EXCEPT ![idx] = @ + 1]
    /\ idx' = idx + 1
    /\ UNCHANGED <<pc, hint, tmpfiles, missing, f8, bd, cx, exc, result,
                   shown, filterVars, renderVars>>

\* return issues
Return ==
    /\ pc = "annotate"
    /\ AnnotateOver(issues, idx)
    /\ result' = issues
    /\ pc' = "done"
    /\ UNCHANGED <<hint, tmpfiles, missing, f8, bd, cx, issues, idx,
                   nAssigned, exc, shown, filterVars, renderVars>>

\* the diffs a caller filters a review by: no file, or one file with one hunk
CallerDiffs ==
    {d \in Diffs : Len(d) <= 1 /\ \A k \in DOMAIN d :
                                       ~d[k].is_removed_file /\ Len(d[k].hunks) = 1}

\* the caller: issues = filter_issues_to_changed_lines(issues, diff_text)
CallerFilter ==
    /\ pc = "done"
    /\ \E diff \in CallerDiffs : result' = filter_issues_to_changed_lines(result, diff)
    /\ UNCHANGED <<pc, hint, tmpfiles, missing, f8, bd, cx, issues, idx,
                   nAssigned, exc, shown, filterVars, renderVars>>

\* the caller: print(issues_to_markdown(issues))
CallerRender ==
    /\ pc = "done"
    /\ shown' = Some(issues_to_markdown(ListArg(result)))
    /\ UNCHANGED <<pc, hint, tmpfiles, missing, f8, bd, cx, issues, idx,
                   nAssigned, exc, result, filterVars, renderVars>>

Init ==
    /\ pc = "flake8 write" /\ hint \in Hints /\ tmpfiles = {}
    /\ missing = {} /\ f8 = <<>> /\ bd = <<>> /\ cx = <<>> /\ issues = <<>>
    /\ idx = 0 /\ nAssigned = <<>> /\ exc = NoExc /\ result = <<>> /\ shown = None
    /\ FilterIdle /\ RenderIdle

Next ==
    \/ Flake8Write
    \/ Flake8Run
    \/ BanditWrite
    \/ BanditRun
    \/ ExternalRemove
    \/ Complexity
    \/ Concat
    \/ Annotate
    \/ Return
    \/ CallerFilter
    \/ CallerRender

Spec == Init /\ [][Next]_vars

-----------------------------------------------------------------------------
(* The filter applied to drawn issues and diffs *)

Suggested(issue) == [issue EXCEPT !.suggestion = friendly_suggestion(issue)]

FilterIssues ==
    { Suggested(Issue(file, line, <<"LOW">>, "flake8", <<"E302">>,
                      <<"expected 2 blank lines">>)) :
        file \in Hints, line \in {5, 12} }

FilterInit ==
    /\ fpc = "drawn"
    /\ fIssues \in SeqsUpTo(FilterIssues, MaxIssues)
    /\ fDiff \in Diffs
    /\ fChanged = <<>> /\ fOut = <<>> /\ fOut2 = <<>>
    /\ ReviewIdle /\ RenderIdle

FilterOnce ==
    /\ fpc = "drawn"
    /\ fChanged' = changed_lines_from_diff(fDiff)
    /\ fOut' = filter_issues_to_changed_lines(fIssues, fDiff)
    /\ fpc' = "once"
    /\ UNCHANGED <<fIssues, fDiff, fOut2, reviewVars, renderVars>>

FilterTwice ==
    /\ fpc = "once"
    /\ fOut2' = filter_issues_to_changed_lines(fOut, fDiff)
    /\ fpc' = "twice"
    /\ UNCHANGED <<fIssues, fDiff, fChanged, fOut, reviewVars, renderVars>>

FilterNext == FilterOnce \/ FilterTwice

FilterSpec == FilterInit /\ [][FilterNext]_vars

-----------------------------------------------------------------------------
(* The renderer applied to drawn arguments *)

RenderTexts == { <<>>, << <<"LGTM">> >>, << <<"line one">>, <<"line two">> >> }

RenderEntries ==
    { [Issue(<<"src", "/", "app.py">>, 12, <<"LOW">>, tool, <<"E501">>,
             <<"line too long">>) EXCEPT !.suggestion = s] :
        tool \in {"flake8", "mypy"},
        s \in {None, Some(""), Some("Follow PEP 8 (naming, spacing, line length) for readability.")} }
    \cup { [note |-> "not an Issue"] }

RenderArgs ==
    { StrArg(text) : text \in RenderTexts }
    \cup { ListArg(list) : list \in SeqsUpTo(RenderEntries, MaxIssues) }

RenderInit ==
    /\ rpc = "drawn"
    /\ rIn \in RenderArgs
    /\ rOut = <<>>
    /\ ReviewIdle /\ FilterIdle

Render ==
    /\ rpc = "drawn"
    /\ rOut' = issues_to_markdown(rIn)
    /\ rpc' = "rendered"
    /\ UNCHANGED <<rIn, reviewVars, filterVars>>

RenderNext == Render

RenderSpec == RenderInit /\ [][RenderNext]_vars

-----------------------------------------------------------------------------
(* Properties *)

Range(seq) == {seq[k] : k \in DOMAIN seq}

Tools == {"flake8", "bandit", "complexity"}

External == {"flake8", "bandit"}

\* what the adapter of a tool returned
Returned(adapter) == IF adapter = "flake8" THEN f8 ELSE bd

\* list with every suggestion cleared
Unsuggested(list) == [k \in DOMAIN list |-> [list[k] EXCEPT !.suggestion = None]]

\* a is b with some elements dropped, the others in their order
RECURSIVE IsSubSeq(_, _)
IsSubSeq(a, b) ==
    IF a = <<>> THEN TRUE
    ELSE IF b = <<>> THEN FALSE
    ELSE IF Head(a) = Head(b) THEN IsSubSeq(Tail(a), Tail(b))
    ELSE IsSubSeq(a, Tail(b))

\* C1: whatever the three analyzers do (missing, failing, any output, code that
\* does not parse), review_code_string ends by returning and never by raising;
\* only a failure to make its own temporary file is no analyzer's doing.
C1_ReviewNeverRaises ==
    pc = "raised" => exc.stage = "_write_temp_code"

C3_LinesPositiveToolsKnown ==
    pc = "done" =>
        \A k \in DOMAIN issues : issues[k].line >= 1 /\ issues[k].tool \in Tools

\* C4: the filter returns its input unchanged when the changed-line map is empty,
\* and otherwise exactly the Issues whose normalized file is a key of the map and
\* whose line is in that key's set, in their original order.
C4_FilterKeepsChanged ==
    fpc # "drawn" =>
        LET Keep(i) == /\ normalize_path(i.file) \in DOMAIN fChanged
                       /\ i.line \in fChanged[normalize_path(i.file)]
        IN  IF DOMAIN fChanged = {} THEN fOut = fIssues
            ELSE fOut = SelectSeq(fIssues, Keep)

C4_Witness ==
    /\ fpc = "once"
    /\ DOMAIN fChanged # {}
    /\ Len(fIssues) = MaxIssues
    /\ Len(fOut) = 1
    /\ fOut[1].file = <<"src", "/", "app.py">>
    /\ fOut[1] = fIssues[2]

\* C5: filtering twice with the same diff gives what filtering once gives.
C5_FilterIdempotent ==
    fpc = "twice" => fOut2 = fOut

C5_Witness ==
    /\ fpc = "twice"
    /\ DOMAIN fChanged # {}
    /\ Len(fOut2) > 0
    /\ Len(fOut2) < Len(fIssues)

\* the line of an Issue up to its message
C6_LineBody(e) ==
    <<"- **", UpperToken(e.tool), " ">> \o e.rule \o <<"** (">> \o e.severity
    \o <<") at ", "BACKQUOTE">> \o e.file \o <<":">> \o str_of_int(e.line)
    \o <<"BACKQUOTE", " - ">> \o e.message

\* a suggestion is present when it is set and not empty
C6_Present(e) == e.suggestion # None /\ e.suggestion # Some("")

\* C6: the renderer returns a plain-text argument unchanged, the fixed message
\* for an empty list, and otherwise the header and one line per entry that has a
\* tool, in input order, the entries without one skipped, the tip appended
\* exactly when the suggestion is present.
C6_RenderLines ==
    rpc = "rendered" =>
        /\ rIn.type = "str" => rOut = rIn.text
        /\ (rIn.type = "list" /\ rIn.list = <<>>) => rOut = NoIssuesMessage
        /\ (rIn.type = "list" /\ rIn.list # <<>>) =>
              LET shaped == SelectSeq(rIn.list, HasTool)
              IN  /\ Len(rOut) = 1 + Len(shaped)
                  /\ rOut[1] = ReviewHeader
                  /\ \A k \in DOMAIN shaped :
                        rOut[k + 1] =
                            C6_LineBody(shaped[k])
                            \o (IF C6_Present(shaped[k])
                                THEN <<" Tip: ", shaped[k].suggestion[1]>>
                                ELSE <<>>)

C6_Witness ==
    /\ rpc = "rendered"
    /\ rIn.type = "list"
    /\ Len(rIn.list) = MaxIssues
    /\ ~HasTool(rIn.list[1])
    /\ HasTool(rIn.list[2])
    /\ rIn.list[2].suggestion # None /\ rIn.list[2].suggestion # Some("")
    /\ Len(rOut) = 2
    /\ rOut[2][Len(rOut[2]) - 1] = " Tip: "

\* C7: once the call of an external adapter has ended, on any exit path, its
\* temporary file no longer exists.
C7_TempFileRemoved ==
    /\ pc \notin {"flake8 write", "flake8 run"} => "flake8" \notin tmpfiles
    /\ pc \notin {"bandit write", "bandit run"} => "bandit" \notin tmpfiles

\* C8: whatever the external tool prints, parsing its output never makes the
\* adapter raise: what does not fit is skipped.
C8_ParsingNeverRaises ==
    ~(pc = "raised" /\ exc.stage = "parse")

\* the lines file k of the diff adds
C9_Added(k) ==
    UNION { { fDiff[k].hunks[h][j].target_line_no[1] :
                j \in {m \in DOMAIN fDiff[k].hunks[h] :
                          /\ fDiff[k].hunks[h][m].is_added
                          /\ fDiff[k].hunks[h][m].target_line_no # None} } :
            h \in DOMAIN fDiff[k].hunks }

\* C9: the changed-line map holds every added line of every file that is not
\* wholly removed, under the file's normalized path, also when several files
\* normalize to the same path; no key has an empty set; removed files add nothing.
C9_EveryAddedLineMapped ==
    fpc # "drawn" =>
        /\ \A k \in DOMAIN fDiff :
              ~fDiff[k].is_removed_file =>
                  \A n \in C9_Added(k) :
                      /\ normalize_path(fDiff[k].target_file) \in DOMAIN fChanged
                      /\ n \in fChanged[normalize_path(fDiff[k].target_file)]
        /\ \A key \in DOMAIN fChanged :
              /\ fChanged[key] # {}
              /\ \A n \in fChanged[key] :
                    \E k \in DOMAIN fDiff :
                        /\ ~fDiff[k].is_removed_file
                        /\ normalize_path(fDiff[k].target_file) = key
                        /\ n \in C9_Added(k)

\* what holds of the Issues at every point of a review
C10_State ==
    /\ \A i \in Range(f8) \cup Range(bd) \cup Range(cx) : i.suggestion = None
    /\ pc \notin {"annotate", "done"} => issues = <<>> /\ nAssigned = <<>>
    /\ pc = "annotate" =>
          /\ Unsuggested(issues) = f8 \o bd \o cx
          /\ \A k \in DOMAIN issues :
                IF k < idx
                THEN nAssigned[k] = 1 /\ issues[k].suggestion = friendly_suggestion(issues[k])
                ELSE nAssigned[k] = 0 /\ issues[k].suggestion = None
    /\ pc = "done" =>
          /\ \A k \in DOMAIN issues :
                nAssigned[k] = 1 /\ issues[k].suggestion = friendly_suggestion(issues[k])
          /\ IsSubSeq(result, issues)

\* what a step after the return of review may do to the Issues
C10_Step ==
    pc = "done" =>
        /\ issues' = issues
        /\ nAssigned' = nAssigned
        /\ IsSubSeq(result', result)

\* C10: an adapter creates every Issue with no suggestion; the annotator assigns
\* its suggestion exactly once, after the three results are concatenated and
\* before review returns; no later filter or render call changes a field of an
\* Issue: the filter only drops Issues and the renderer only reads them.
C10_Lifecycle == []C10_State /\ [][C10_Step]_vars

C10_Witness ==
    /\ pc = "done"
    /\ Len(issues) > MaxOut
    /\ Len(result) > 0
    /\ Len(result) < Len(issues)
    /\ shown # None
    /\ Len(shown[1]) = 1 + Len(result)

=============================================================================
